---- MODULE Spec2Model ----
(***************************************************************************)
(* Lot-based FIFO inventory ledger of the inventory service.               *)
(*                                                                         *)
(* The store is a relational database (database.py: PostgreSQL, default    *)
(* READ COMMITTED).  Every request handler runs in its own session, i.e.   *)
(* its own transaction: rows it changes or inserts stay private to the     *)
(* session until commit, and SELECT ... FOR UPDATE takes row locks one     *)
(* row at a time in the order the query returns the rows; a row held by    *)
(* another transaction makes the statement wait, and once the lock is      *)
(* granted the newest committed version of the row is re-checked against   *)
(* the WHERE clause and returned.  Rows committed after the statement      *)
(* started are not part of its result.                                     *)
(*                                                                         *)
(* Quantities are NUMERIC(10,3); the model counts them in whole storage    *)
(* units (thousandths), so Decimal arithmetic is integer arithmetic.       *)
(***************************************************************************)
EXTENDS Integers, Sequences, FiniteSets, TLC

\* ---- bounds of the model ------------------------------------------------
NumProcs == 3      \* concurrent sessions
MaxLots  == 4      \* rows of stock_batches ever inserted
MaxRecv  == 2      \* receipts in one behaviour
MaxQty   == 2      \* quantity of a receipt
MaxDate  == 2      \* arrival dates 1..MaxDate
MaxOps   == 2      \* requests started in one behaviour

Procs     == 1..NumProcs
SKUs      == {"MALT", "HOPS"}
Locations == {"SiloA", "SiloB"}
NoLoc     == "None"                 \* location = NULL / not given
Dates     == 1..MaxDate
RecvQtys  == {MaxQty}               \* quantities received
ReqQtys   == 1..(MaxQty + 1)        \* quantities requested
UnitCosts == {2}

\* models/enums.py (MovementType, TransferStatus) is not part of the sources;
\* the values are the ones the callers use.
CONSUMPTION == "CONSUMPTION"
TRANSFER    == "TRANSFER"
PENDING     == "PENDING"
COMPLETED   == "COMPLETED"

VARIABLES
    batches,        \* committed stock_batches rows: id -> row
    movements,      \* committed stock_movements rows, in commit order
    transfers,      \* committed stock_transfers rows: id -> row
    nextBatchId,    \* stock_batches id sequence (next value)
    nextTransferId, \* stock_transfers id sequence (next value)
    locks,          \* row locks: session -> ids of the stock_batches rows it holds
    pc,             \* per session: position in its handler
    req,            \* per session: the request being served, or the last one served
    cand,           \* per session: rows of the locking SELECT, in scan order
    idx,            \* per session: next row of cand to lock
    rows,           \* per session: row versions returned under lock (the list `batches`)
    pending,        \* per session: uncommitted writes of the session
    result,         \* per session: outcome of the last request
    ops,            \* number of requests started
    production,     \* committed production_batches rows: id -> row
    kegs,           \* committed keg_assets rows: id -> row
    kegTransitions, \* committed keg_transitions rows, in commit order
    kegTransfers,   \* committed keg_transfers rows, in commit order
    response        \* answer to the last production or keg request

vars == <<batches, movements, transfers, nextBatchId, nextTransferId, locks,
          pc, req, cand, idx, rows, pending, result, ops,
          production, kegs, kegTransitions, kegTransfers, response>>

\* no production or keg request was answered yet
NoResponse == [n |-> 0, op |-> "none"]

\* the rows of the production batches and of the kegs
PlantVars == <<production, kegs, kegTransitions, kegTransfers, response>>

\* ---- helpers --------------------------------------------------------------
\* a faulty minimum that always answers its second argument
Min_Second(a, b) == b
Min(a, b) == IF a <= b THEN a ELSE b

RECURSIVE Sum(_)
\* sum of a sequence of numbers
Sum(s) == IF s = <<>> THEN 0 ELSE Head(s) + Sum(Tail(s))

RECURSIVE SumOver(_, _)
\* sum of f[x] over the x in S
SumOver(S, f) ==
    IF S = {} THEN 0
    ELSE LET x == CHOOSE y \in S : TRUE IN f[x] + SumOver(S \ {x}, f)

Range(s) == {s[i] : i \in DOMAIN s}

NoTransfer == 0                     \* reference = None (transfer ids start at 1)
NoRequest == [kind |-> "none"]
NoResult  == [status |-> "none"]
NoPending == [updates |-> <<>>, newBatches |-> <<>>, newMovements |-> <<>>,
              newTransfers |-> <<>>, ret |-> NoResult]

\* models/stock.py: a StockBatch row as inserted (remaining = initial,
\* is_allocated default False, lock_version default 1)
StockBatch(id, sku, batch_number, location, arrival, quantity, unit_cost) ==
    [id |-> id, sku |-> sku, batch_number |-> batch_number,
     location |-> location, arrival_date |-> arrival,
     initial_quantity |-> quantity, remaining_quantity |-> quantity,
     unit_cost |-> unit_cost, total_cost |-> quantity * unit_cost,
     is_allocated |-> FALSE, lock_version |-> 1]

\* ---- the store as one statement sees it ---------------------------------
\* stock_rotation.py 102-113: WHERE sku = :sku AND remaining_quantity > 0
\* [AND location = :location]; `if location:` drops the filter for None
\* (Matches_AnySku: a faulty filter that leaves out the SKU)
Matches_AnySku(row, sku, location) ==
    /\ row.remaining_quantity > 0
    /\ (location = NoLoc \/ row.location = location)

Matches(row, sku, location) ==
    /\ row.sku = sku
    /\ row.remaining_quantity > 0
    /\ (location = NoLoc \/ row.location = location)

Eligible(sku, location) ==
    {id \in DOMAIN batches : Matches(batches[id], sku, location)}

\* ORDER BY arrival_date ASC and nothing else: rows with equal arrival_date
\* come back in whatever order the plan produces
ScanOrders_Unordered(ids) ==
    {s \in [1..Cardinality(ids) -> ids] :
        \A i, j \in DOMAIN s : i # j => s[i] # s[j]}
ScanOrders(ids) ==
    {s \in [1..Cardinality(ids) -> ids] :
        /\ \A i, j \in DOMAIN s : i # j => s[i] # s[j]
        /\ \A i, j \in DOMAIN s :
              i < j => batches[s[i]].arrival_date <= batches[s[j]].arrival_date}

\* a query without FOR UPDATE never waits for a row
LockedByOther_NoRowLock(p, id) == FALSE
\* a faulty lock that covers the whole table
LockedByOther_TableLock(p, id) == \E q \in Procs \ {p} : locks[q] # {}
LockedByOther(p, id) == \E q \in Procs \ {p} : id \in locks[q]

\* ---- log_movement -------------------------------------------------------
\* reference: the id n of "Transfer #n", or NoTransfer (no reference given)
log_movement(batch_id, sku, movement_type, quantity, from_location, to_location, reference, unit_cost) ==
    [batch_id |-> batch_id, sku |-> sku, movement_type |-> movement_type,
     quantity |-> quantity, from_location |-> from_location,
     to_location |-> to_location, reference |-> reference,
     unit_cost |-> unit_cost, total_cost |-> quantity * unit_cost]

\* ---- allocate_stock_fifo, lines 117-173, on the rows read under lock ----
\* a faulty total that adds up what the lots held on arrival
total_available_Initial(bs) == Sum([i \in DOMAIN bs |-> bs[i].initial_quantity])
total_available(bs) == Sum([i \in DOMAIN bs |-> bs[i].remaining_quantity])

\* a faulty update that adds the quantity to the lot
AllocateFrom_Refill(batch, to_allocate) ==
    [batch EXCEPT
        !.remaining_quantity = @ + to_allocate,
        !.lock_version = @ + 1]

\* one pass of the for loop body (lines 135-141): the batch after the update
AllocateFrom(batch, to_allocate) ==
    [batch EXCEPT
        !.remaining_quantity = @ - to_allocate,
        !.is_allocated = IF batch.remaining_quantity - to_allocate = 0
                         THEN TRUE ELSE @,
        !.lock_version = @ + 1]

\* lines 159-169: the dict appended to `allocations`
AllocationEntry(batch, to_allocate) ==
    [batch_id |-> batch.id, batch_number |-> batch.batch_number,
     sku |-> batch.sku, quantity |-> to_allocate,
     unit_cost |-> batch.unit_cost, total_cost |-> to_allocate * batch.unit_cost,
     location |-> batch.location]

RECURSIVE FifoLoop(_, _)
\* lines 127-173: the loop over `batches` with `remaining` still needed;
\* yields the touched batches after the update and the allocations
FifoLoop(bs, remaining) ==
    IF bs = <<>> \/ remaining <= 0
    THEN [updates |-> <<>>, allocations |-> <<>>]
    ELSE LET batch == Head(bs)
             to_allocate == Min(batch.remaining_quantity, remaining)
             rest == FifoLoop(Tail(bs), remaining - to_allocate)
         IN [updates |-> <<AllocateFrom(batch, to_allocate)>> \o rest.updates,
             allocations |-> <<AllocationEntry(batch, to_allocate)>>
                               \o rest.allocations]

\* the CONSUMPTION movement of one allocation (lines 144-156)
ConsumptionMovement(a, reference) ==
    log_movement(a.batch_id, a.sku, CONSUMPTION, a.quantity, a.location,
                 NoLoc, reference, a.unit_cost)

\* allocate_stock_fifo as a whole: raise (lines 120-125) or the writes
allocate_stock_fifo(sku, amount_needed, reference, bs) ==
    IF total_available(bs) < amount_needed
    THEN [raised |-> TRUE,
          error |-> [status |-> "insufficient_stock", sku |-> sku,
                     requested |-> amount_needed,
                     available |-> total_available(bs)]]
    ELSE LET loop == FifoLoop(bs, amount_needed)
         IN [raised |-> FALSE,
             updates |-> loop.updates,
             allocations |-> loop.allocations,
             newMovements |-> [i \in DOMAIN loop.allocations |->
                                 ConsumptionMovement(loop.allocations[i], reference)]]

\* ---- sessions -------------------------------------------------------------
SessionVars == <<pc, req, cand, idx, rows, pending, result>>
StoreVars   == <<batches, movements, transfers>>

\* new rows the running transfers may still insert (one per locked source row)
Reserved ==
    SumOver({p \in Procs : req[p].kind = "transfer" /\ pc[p] \in {"lock", "run"}},
            [p \in Procs |-> Len(cand[p])])

\* sessions are interchangeable: a request is served by the first idle one
FirstIdle(p) == pc[p] = "idle" /\ \A q \in Procs : q < p => pc[q] # "idle"

\* session p takes the next request of the workload
Accept(p) == ops < MaxOps /\ FirstIdle(p)

\* session.execute(stmt) of a locking SELECT starts: the statement's snapshot
\* fixes the rows it will visit and their order
StartSelect(p, r, ids) ==
    \E order \in ScanOrders(ids) :
        /\ req' = [req EXCEPT ![p] = r]
        /\ cand' = [cand EXCEPT ![p] = order]
        /\ idx' = [idx EXCEPT ![p] = 1]
        /\ rows' = [rows EXCEPT ![p] = <<>>]
        /\ result' = [result EXCEPT ![p] = NoResult]
        /\ pc' = [pc EXCEPT ![p] = IF order = <<>> THEN "run" ELSE "lock"]
        /\ ops' = ops + 1

\* the WHERE clause re-checked on the newest committed version of a row once
\* its lock is granted (sku, location and id never change)
Recheck(r, row) ==
    IF r.kind = "consume" THEN TRUE ELSE row.remaining_quantity > 0

\* with_for_update(): the statement locks the next row of its scan, waiting
\* while another transaction holds it; the row as returned once the lock is held
NextRow(p) == cand[p][idx[p]]
RowsWithNext(p) ==
    IF Recheck(req[p], batches[NextRow(p)])
    THEN Append(rows[p], batches[NextRow(p)]) ELSE rows[p]

\* a row of the scan other than its last one is locked
LockRow(p) ==
    /\ pc[p] = "lock"
    /\ idx[p] < Len(cand[p])
    /\ ~LockedByOther(p, NextRow(p))
    /\ locks' = [locks EXCEPT ![p] = @ \cup {NextRow(p)}]
    /\ rows' = [rows EXCEPT ![p] = RowsWithNext(p)]
    /\ idx' = [idx EXCEPT ![p] = @ + 1]
    /\ UNCHANGED <<StoreVars, nextBatchId, nextTransferId, pc, req, cand,
                   pending, result, ops>>
    /\ UNCHANGED PlantVars

\* the SELECT returns: it had no row to lock, or its last row can be locked;
\* the handler then runs without waiting up to its commit or rollback
Returns(p) ==
    \/ pc[p] = "run"
    \/ pc[p] = "lock" /\ idx[p] = Len(cand[p]) /\ ~LockedByOther(p, NextRow(p))

\* session.execute(stmt).scalars().all()
Fetched(p) == IF pc[p] = "run" THEN rows[p] ELSE RowsWithNext(p)

\* the bookkeeping of the SELECT's return
Return(p) ==
    /\ locks' = [locks EXCEPT ![p] =
                    IF pc[p] = "run" THEN @ ELSE @ \cup {NextRow(p)}]
    /\ rows' = [rows EXCEPT ![p] = Fetched(p)]
    /\ idx' = [idx EXCEPT ![p] = Len(cand[p]) + 1]

\* sessions waiting for a row lock, and whom they wait for
Blocked(p) == pc[p] = "lock" /\ LockedByOther(p, NextRow(p))
Holders(S) ==
    {q \in Procs : \E r \in S : Blocked(r) /\ r # q /\ cand[r][idx[r]] \in locks[q]}

RECURSIVE WaitsOn(_, _)
WaitsOn(S, n) == IF n = 0 THEN S ELSE WaitsOn(S \cup Holders(S), n - 1)

InDeadlock(p) == Blocked(p) /\ p \in WaitsOn(Holders({p}), NumProcs)

\* a faulty database that never breaks a lock cycle
DeadlockAbort_Never(p) == FALSE /\ UNCHANGED vars

\* the database breaks a lock cycle by failing one of the waiting statements;
\* the handler's `except Exception` rolls the session back
DeadlockAbort(p) ==
    /\ InDeadlock(p)
    /\ pending' = [pending EXCEPT ![p].ret = [status |-> "error"]]
    /\ pc' = [pc EXCEPT ![p] = "rollback"]
    /\ UNCHANGED <<StoreVars, nextBatchId, nextTransferId, locks, req, cand,
                   idx, rows, result, ops>>
    /\ UNCHANGED PlantVars

\* POST /allocate (and the test's allocate_in_thread): the request arrives
BeginAllocate(p, sku, amount_needed, location) ==
    /\ pc[p] = "idle"
    /\ StartSelect(p, [kind |-> "allocate", sku |-> sku,
                       quantity |-> amount_needed, location |-> location],
                   Eligible(sku, location))
    /\ UNCHANGED <<StoreVars, nextBatchId, nextTransferId, locks, pending>>
    /\ UNCHANGED PlantVars

\* allocate_stock_fifo after the SELECT returned, up to its return or raise
AllocateRun(p) ==
    /\ req[p].kind = "allocate"
    /\ Returns(p)
    /\ Return(p)
    /\ LET out == allocate_stock_fifo(req[p].sku, req[p].quantity, NoTransfer,
                                     Fetched(p)) IN
        IF out.raised
        THEN /\ pending' = [pending EXCEPT ![p].ret = out.error]
             /\ pc' = [pc EXCEPT ![p] = "rollback"]
        ELSE /\ pending' = [pending EXCEPT
                               ![p].updates = out.updates,
                               ![p].newMovements = out.newMovements,
                               ![p].ret = [status |-> "allocated",
                                           allocations |-> out.allocations]]
             /\ pc' = [pc EXCEPT ![p] = "commit"]
    /\ UNCHANGED <<StoreVars, nextBatchId, nextTransferId, req, cand, result, ops>>
    /\ UNCHANGED PlantVars

\* the session is over: locks released, the caller has its answer
EndSession(p) ==
    /\ locks' = [locks EXCEPT ![p] = {}]
    /\ pc' = [pc EXCEPT ![p] = "idle"]
    /\ cand' = [cand EXCEPT ![p] = <<>>]
    /\ idx' = [idx EXCEPT ![p] = 1]
    /\ rows' = [rows EXCEPT ![p] = <<>>]
    /\ pending' = [pending EXCEPT ![p] = NoPending]
    /\ result' = [result EXCEPT ![p] = pending[p].ret]

RowWithId(s, id) == CHOOSE b \in Range(s) : b.id = id
IdsOf(s) == {s[i].id : i \in DOMAIN s}

\* a faulty commit that publishes the lots and transfers but not the movements
Commit_LotsOnly(p) ==
    /\ pc[p] = "commit"
    /\ LET w == pending[p] IN
        /\ batches' =
              [id \in DOMAIN batches \cup IdsOf(w.newBatches) |->
                  IF id \in IdsOf(w.updates) THEN RowWithId(w.updates, id)
                  ELSE IF id \in IdsOf(w.newBatches) THEN RowWithId(w.newBatches, id)
                  ELSE batches[id]]
        /\ movements' = movements
        /\ transfers' =
              [id \in DOMAIN transfers \cup IdsOf(w.newTransfers) |->
                  IF id \in IdsOf(w.newTransfers) THEN RowWithId(w.newTransfers, id)
                  ELSE transfers[id]]
    /\ EndSession(p)
    /\ UNCHANGED <<nextBatchId, nextTransferId, req, ops>>
    /\ UNCHANGED PlantVars

\* a faulty commit that replaces the ledger by the movements of the session
Commit_Truncates(p) ==
    /\ pc[p] = "commit"
    /\ LET w == pending[p] IN
        /\ batches' =
              [id \in DOMAIN batches \cup IdsOf(w.newBatches) |->
                  IF id \in IdsOf(w.updates) THEN RowWithId(w.updates, id)
                  ELSE IF id \in IdsOf(w.newBatches) THEN RowWithId(w.newBatches, id)
                  ELSE batches[id]]
        /\ movements' = w.newMovements
        /\ transfers' =
              [id \in DOMAIN transfers \cup IdsOf(w.newTransfers) |->
                  IF id \in IdsOf(w.newTransfers) THEN RowWithId(w.newTransfers, id)
                  ELSE transfers[id]]
    /\ EndSession(p)
    /\ UNCHANGED <<nextBatchId, nextTransferId, req, ops>>
    /\ UNCHANGED PlantVars

\* db.commit(): every write of the session becomes visible at once
Commit(p) ==
    /\ pc[p] = "commit"
    /\ LET w == pending[p] IN
        /\ batches' =
              [id \in DOMAIN batches \cup IdsOf(w.newBatches) |->
                  IF id \in IdsOf(w.updates) THEN RowWithId(w.updates, id)
                  ELSE IF id \in IdsOf(w.newBatches) THEN RowWithId(w.newBatches, id)
                  ELSE batches[id]]
        /\ movements' = movements \o w.newMovements
        /\ transfers' =
              [id \in DOMAIN transfers \cup IdsOf(w.newTransfers) |->
                  IF id \in IdsOf(w.newTransfers) THEN RowWithId(w.newTransfers, id)
                  ELSE transfers[id]]
    /\ EndSession(p)
    /\ UNCHANGED <<nextBatchId, nextTransferId, req, ops>>
    /\ UNCHANGED PlantVars

\* a faulty rollback that publishes what the session had flushed
Rollback_Publishes(p) ==
    /\ pc[p] = "rollback"
    /\ LET w == pending[p] IN
        /\ batches' =
              [id \in DOMAIN batches \cup IdsOf(w.newBatches) |->
                  IF id \in IdsOf(w.updates) THEN RowWithId(w.updates, id)
                  ELSE IF id \in IdsOf(w.newBatches) THEN RowWithId(w.newBatches, id)
                  ELSE batches[id]]
        /\ movements' = movements \o w.newMovements
        /\ transfers' = transfers
    /\ EndSession(p)
    /\ UNCHANGED <<nextBatchId, nextTransferId, req, ops>>
    /\ UNCHANGED PlantVars

\* db.rollback() / session close without commit: every write is discarded
Rollback(p) ==
    /\ pc[p] = "rollback"
    /\ EndSession(p)
    /\ UNCHANGED <<StoreVars, nextBatchId, nextTransferId, req, ops>>
    /\ UNCHANGED PlantVars

\* POST /stock (receive_stock): insert one batch and commit
Receive(sku, quantity, location, arrival, unit_cost) ==
    /\ Cardinality({id \in DOMAIN batches : batches[id].batch_number.kind = "LOT"})
          < MaxRecv
    /\ nextBatchId + Reserved <= MaxLots
    /\ batches' = batches @@
          (nextBatchId :> StockBatch(nextBatchId, sku,
                                     [kind |-> "LOT", transfer |-> 0, from |-> 0],
                                     location, arrival, quantity, unit_cost))
    /\ nextBatchId' = nextBatchId + 1
    /\ UNCHANGED <<movements, transfers, nextTransferId, locks, SessionVars, ops>>
    /\ UNCHANGED PlantVars

\* PATCH /stock-batches/{batch_id}/consume: SELECT ... WHERE id = :batch_id
\* FOR UPDATE
BeginConsume(p, batch_id, quantity) ==
    /\ pc[p] = "idle"
    /\ StartSelect(p, [kind |-> "consume", batch_id |-> batch_id,
                       quantity |-> quantity],
                   {batch_id} \cap DOMAIN batches)
    /\ UNCHANGED <<StoreVars, nextBatchId, nextTransferId, locks, pending>>
    /\ UNCHANGED PlantVars

\* consume_stock_batch after the SELECT returned (stock_routes.py 251-282);
\* unit_matches: whether the unit of the request is the unit of the batch
ConsumeRun(p, unit_matches) ==
    /\ req[p].kind = "consume"
    /\ Returns(p)
    /\ Return(p)
    /\ IF Fetched(p) = <<>>
       THEN /\ pending' = [pending EXCEPT ![p].ret = [status |-> "not_found"]]
            /\ pc' = [pc EXCEPT ![p] = "rollback"]
       ELSE LET stock_batch == Fetched(p)[1] IN
            IF ~unit_matches
            THEN /\ pending' = [pending EXCEPT ![p].ret = [status |-> "unit_mismatch"]]
                 /\ pc' = [pc EXCEPT ![p] = "rollback"]
            ELSE IF stock_batch.remaining_quantity < req[p].quantity
            THEN /\ pending' = [pending EXCEPT ![p].ret =
                        [status |-> "insufficient_quantity",
                         batch_id |-> req[p].batch_id,
                         requested |-> req[p].quantity,
                         available |-> stock_batch.remaining_quantity]]
                 /\ pc' = [pc EXCEPT ![p] = "rollback"]
            ELSE /\ pending' = [pending EXCEPT
                        ![p].updates =
                            <<[stock_batch EXCEPT
                                 !.remaining_quantity = @ - req[p].quantity]>>,
                        ![p].ret =
                            [status |-> "consumed",
                             batch_id |-> req[p].batch_id,
                             quantity_consumed |-> req[p].quantity,
                             previous_quantity |-> stock_batch.remaining_quantity,
                             remaining_quantity |->
                                 stock_batch.remaining_quantity - req[p].quantity]]
                 /\ pc' = [pc EXCEPT ![p] = "commit"]
    /\ UNCHANGED <<StoreVars, nextBatchId, nextTransferId, req, cand, result, ops>>
    /\ UNCHANGED PlantVars

\* POST /transfer: transfer_stock lines 205-228 up to the locking SELECT:
\* the PENDING transfer row is flushed (its id drawn), then allocation starts
BeginTransfer(p, sku, quantity, from_location, to_location) ==
    /\ pc[p] = "idle"
    /\ (nextBatchId - 1) + Reserved
          + Cardinality(Eligible(sku, from_location)) <= MaxLots
    /\ pending' = [pending EXCEPT ![p].newTransfers =
          <<[id |-> nextTransferId, sku |-> sku, quantity |-> quantity,
             from_location |-> from_location, to_location |-> to_location,
             status |-> PENDING]>>]
    /\ nextTransferId' = nextTransferId + 1
    /\ StartSelect(p, [kind |-> "transfer", sku |-> sku, quantity |-> quantity,
                       location |-> from_location,
                       to_location |-> to_location],
                   Eligible(sku, from_location))
    /\ UNCHANGED <<StoreVars, nextBatchId, locks>>
    /\ UNCHANGED PlantVars

\* a faulty destination batch that always holds one unit
DestinationBatch_OneUnit(transfer_id, to_location, arrival, alloc, id) ==
    StockBatch(id, alloc.sku,
               [kind |-> "TRANSFER", transfer |-> transfer_id,
                from |-> alloc.batch_id],
               to_location, arrival, 1, alloc.unit_cost)

\* lines 235-248: the batch created at the destination for allocation i
DestinationBatch(transfer_id, to_location, arrival, alloc, id) ==
    [StockBatch(id, alloc.sku,
                [kind |-> "TRANSFER", transfer |-> transfer_id,
                 from |-> alloc.batch_id],
                to_location, arrival, alloc.quantity, alloc.unit_cost)
     EXCEPT !.total_cost = alloc.total_cost]

\* a faulty movement for the new batch with the two locations exchanged
TransferMovement_Swapped(transfer_id, from_location, to_location, alloc, new_batch_id) ==
    log_movement(new_batch_id, alloc.sku, TRANSFER, alloc.quantity,
                 to_location, from_location, transfer_id, alloc.unit_cost)

\* lines 252-265: the movement logged for the new batch
TransferMovement(transfer_id, from_location, to_location, alloc, new_batch_id) ==
    log_movement(new_batch_id, alloc.sku, TRANSFER, alloc.quantity,
                 from_location, to_location, transfer_id, alloc.unit_cost)

\* transfer_stock after the SELECT returned (lines 117-125 and 230-272);
\* arrival: the clock reading the new batches get as arrival_date;
\* failing: 0, or the fragment whose destination batch the database fails to
\* insert (session.flush() raises), which create_transfer's `except Exception`
\* answers with a rollback
TransferRun(p, arrival, failing) ==
    /\ req[p].kind = "transfer"
    /\ Returns(p)
    /\ Return(p)
    /\ LET transfer == pending[p].newTransfers[1]
           out == allocate_stock_fifo(req[p].sku, req[p].quantity, transfer.id,
                                      Fetched(p))
       IN
        IF out.raised
        THEN /\ failing = 0
             /\ pending' = [pending EXCEPT ![p].ret = out.error]
             /\ pc' = [pc EXCEPT ![p] = "rollback"]
             /\ UNCHANGED nextBatchId
        ELSE LET n == IF failing = 0 THEN Len(out.allocations) ELSE failing - 1
                 done == [transfer EXCEPT !.status = COMPLETED]
             IN
             /\ failing <= Len(out.allocations)
             /\ pending' = [pending EXCEPT
                    ![p].updates = out.updates,
                    ![p].newBatches =
                        [i \in 1..n |->
                            DestinationBatch(transfer.id, req[p].to_location,
                                             arrival, out.allocations[i],
                                             nextBatchId + i - 1)],
                    ![p].newMovements = out.newMovements \o
                        [i \in 1..n |->
                            TransferMovement(transfer.id, req[p].location,
                                             req[p].to_location,
                                             out.allocations[i],
                                             nextBatchId + i - 1)],
                    ![p].newTransfers =
                        IF failing = 0 THEN <<done>> ELSE <<transfer>>,
                    ![p].ret =
                        IF failing = 0
                        THEN [status |-> "transferred", transfer |-> done]
                        ELSE [status |-> "error"]]
             /\ nextBatchId' = nextBatchId + n
             /\ pc' = [pc EXCEPT ![p] = IF failing = 0 THEN "commit" ELSE "rollback"]
    /\ UNCHANGED <<StoreVars, nextTransferId, req, cand, result, ops>>
    /\ UNCHANGED PlantVars

Init ==
    /\ batches = <<>>
    /\ movements = <<>>
    /\ transfers = <<>>
    /\ nextBatchId = 1
    /\ nextTransferId = 1
    /\ locks = [p \in Procs |-> {}]
    /\ pc = [p \in Procs |-> "idle"]
    /\ req = [p \in Procs |-> NoRequest]
    /\ cand = [p \in Procs |-> <<>>]
    /\ idx = [p \in Procs |-> 1]
    /\ rows = [p \in Procs |-> <<>>]
    /\ pending = [p \in Procs |-> NoPending]
    /\ result = [p \in Procs |-> NoResult]
    /\ ops = 0
    /\ production = <<>>
    /\ kegs = <<>>
    /\ kegTransitions = <<>>
    /\ kegTransfers = <<>>
    /\ response = NoResponse

\* the steps every session takes once its request has started
Proceed ==
    \/ \E p \in Procs : LockRow(p)
    \/ \E p \in Procs : DeadlockAbort(p)
    \/ \E p \in Procs : AllocateRun(p)
    \/ \E p \in Procs, u \in BOOLEAN : ConsumeRun(p, u)
    \/ \E p \in Procs, d \in Dates, k \in 0..MaxLots : TransferRun(p, d, k)
    \/ \E p \in Procs : Commit(p)
    \/ \E p \in Procs : Rollback(p)

\* the locations are interchangeable: the first receipt names the first
FirstReceipt(loc) == batches = <<>> => loc = "SiloA"

\* receipts and requests on the SKUs skus and the locations locs, at most
\* MaxOps requests in all
Step(skus, locs) ==
    \/ \E sku \in skus, q \in RecvQtys, loc \in locs,
          d \in Dates, c \in UnitCosts :
            FirstReceipt(loc) /\ Receive(sku, q, loc, d, c)
    \/ \E p \in Procs, sku \in skus, q \in ReqQtys, loc \in locs \cup {NoLoc} :
          Accept(p) /\ BeginAllocate(p, sku, q, loc)
    \/ \E p \in Procs, id \in DOMAIN batches \cup {nextBatchId}, q \in 1..MaxQty :
          Accept(p) /\ BeginConsume(p, id, q)
    \/ \E p \in Procs, sku \in skus, q \in ReqQtys, from \in locs, to \in locs :
          Accept(p) /\ BeginTransfer(p, sku, q, from, to)
    \/ Proceed

Next == Step({"MALT"}, Locations)

Spec == Init /\ [][Next]_vars

\* ---- concurrent allocations against one SKU and location ---------------
\* the stock is received first; then every session serves one allocate call
\* for that SKU and location (test_race_conditions.py, allocate_in_thread)
NextAlloc ==
    \/ /\ ops = 0
       /\ \E q \in RecvQtys, loc \in Locations, d \in Dates, c \in UnitCosts :
            FirstReceipt(loc) /\ Receive("MALT", q, loc, d, c)
    \/ \E p \in Procs, q \in ReqQtys, loc \in Locations \cup {NoLoc} :
          /\ p = ops + 1
          /\ \A r \in Procs : req[r].kind # "none" => req[r].location = loc
          /\ BeginAllocate(p, "MALT", q, loc)
    \/ \E p \in Procs : LockRow(p)
    \/ \E p \in Procs : DeadlockAbort(p)
    \/ \E p \in Procs : AllocateRun(p)
    \/ \E p \in Procs : Commit(p)
    \/ \E p \in Procs : Rollback(p)

SpecAlloc == Init /\ [][NextAlloc]_vars

\* ---- allocations and transfers of one SKU beside stock of another --------
\* lots of both SKUs are received at both locations; the requests name MALT
\* (test_fifo_logic.py test_ignores_different_sku, test_transfers.py
\* test_transfer_ignores_stock_at_other_locations)
NextFrame ==
    \/ \E sku \in SKUs, q \in RecvQtys, loc \in Locations,
          d \in Dates, c \in UnitCosts :
            FirstReceipt(loc) /\ Receive(sku, q, loc, d, c)
    \/ \E p \in Procs, q \in ReqQtys, loc \in Locations \cup {NoLoc} :
          Accept(p) /\ BeginAllocate(p, "MALT", q, loc)
    \/ \E p \in Procs, q \in ReqQtys, from \in Locations, to \in Locations :
          Accept(p) /\ BeginTransfer(p, "MALT", q, from, to)
    \/ \E p \in Procs : LockRow(p)
    \/ \E p \in Procs : DeadlockAbort(p)
    \/ \E p \in Procs : AllocateRun(p)
    \/ \E p \in Procs, d \in Dates, k \in 0..MaxLots : TransferRun(p, d, k)
    \/ \E p \in Procs : Commit(p)
    \/ \E p \in Procs : Rollback(p)

SpecFrame == Init /\ [][NextFrame]_vars

\* ---- allocations and transfers of two SKUs at once ------------------------
\* lots of both SKUs are received at the first location; the requests name
\* either SKU
NextSkus ==
    \/ \E sku \in SKUs, q \in RecvQtys, d \in Dates, c \in UnitCosts :
          Receive(sku, q, "SiloA", d, c)
    \/ \E p \in Procs, sku \in SKUs, q \in ReqQtys, loc \in {"SiloA", NoLoc} :
          Accept(p) /\ BeginAllocate(p, sku, q, loc)
    \/ \E p \in Procs, sku \in SKUs, q \in ReqQtys :
          Accept(p) /\ BeginTransfer(p, sku, q, "SiloA", "SiloB")
    \/ \E p \in Procs : LockRow(p)
    \/ \E p \in Procs : DeadlockAbort(p)
    \/ \E p \in Procs : AllocateRun(p)
    \/ \E p \in Procs, d \in Dates, k \in 0..MaxLots : TransferRun(p, d, k)
    \/ \E p \in Procs : Commit(p)
    \/ \E p \in Procs : Rollback(p)

SpecSkus == Init /\ [][NextSkus]_vars

\* ---- allocations and transfers under fair scheduling ----------------------
\* the stock is received first, at one location; then allocations with and
\* without the location filter and transfers out of the location are served,
\* each asking for more than one lot holds
NextLive ==
    \/ /\ ops = 0
       /\ \E q \in RecvQtys, d \in Dates, c \in UnitCosts :
            Receive("MALT", q, "SiloA", d, c)
    \/ \E p \in Procs, loc \in {"SiloA", NoLoc} :
          Accept(p) /\ BeginAllocate(p, "MALT", MaxQty + 1, loc)
    \/ \E p \in Procs :
          Accept(p) /\ BeginTransfer(p, "MALT", MaxQty + 1, "SiloA", "SiloB")
    \/ \E p \in Procs : LockRow(p)
    \/ \E p \in Procs : DeadlockAbort(p)
    \/ \E p \in Procs : AllocateRun(p)
    \/ \E p \in Procs, d \in Dates, k \in 0..MaxLots : TransferRun(p, d, k)
    \/ \E p \in Procs : Commit(p)
    \/ \E p \in Procs : Rollback(p)

\* the steps of session p between the arrival of its request and its end
Serve(p) ==
    \/ LockRow(p)
    \/ DeadlockAbort(p)
    \/ AllocateRun(p)
    \/ \E d \in Dates, k \in 0..MaxLots : TransferRun(p, d, k)
    \/ Commit(p)
    \/ Rollback(p)

\* every worker thread keeps running: a session that can take a step (its row
\* lock is free, its statement returned, or the deadlock detector chose it)
\* eventually takes one
Fairness == \A p \in Procs : WF_vars(Serve(p))

SpecLive == Init /\ [][NextLive]_vars /\ Fairness

\* ---- allocate_stock_fifo called directly -----------------------------------
\* the function is exported (logic/__init__.py) and the unit tests call it with
\* a session of their own: its amount_needed is then any Decimal, the schema of
\* POST /allocate (amount_needed > 0) not being in the way
CallQtys == (-1)..(MaxQty + 1)

NextDirect ==
    \/ \E q \in RecvQtys, loc \in Locations, d \in Dates, c \in UnitCosts :
          FirstReceipt(loc) /\ Receive("MALT", q, loc, d, c)
    \/ \E p \in Procs, q \in CallQtys, loc \in Locations \cup {NoLoc} :
          Accept(p) /\ BeginAllocate(p, "MALT", q, loc)
    \/ \E p \in Procs : LockRow(p)
    \/ \E p \in Procs : DeadlockAbort(p)
    \/ \E p \in Procs : AllocateRun(p)
    \/ \E p \in Procs : Commit(p)
    \/ \E p \in Procs : Rollback(p)

SpecDirect == Init /\ [][NextDirect]_vars

\* ---- log_movement called directly ------------------------------------------
NoBatch == 0                        \* batch_id = None (lot ids start at 1)

\* log_movement(session, batch_id, ...) followed by session.commit()
\* (test_transfers.py, test_log_movement_creates_audit_record): the function
\* builds the row and adds it to the session (stock_rotation.py 50-67); the
\* INSERT of the commit meets the foreign key stock_movements.batch_id ->
\* stock_batches.id (models/movement.py 29). fk_enforced: whether the database
\* enforces it (PostgreSQL does, the tests' SQLite connection does not)
LogMovementCall(p, batch_id, quantity, fk_enforced) ==
    /\ pc[p] = "idle"
    /\ req' = [req EXCEPT ![p] = [kind |-> "log", batch_id |-> batch_id,
                                  quantity |-> quantity]]
    /\ result' = [result EXCEPT ![p] = NoResult]
    /\ ops' = ops + 1
    /\ IF fk_enforced /\ batch_id # NoBatch /\ batch_id \notin DOMAIN batches
       THEN /\ pending' = [pending EXCEPT ![p].ret = [status |-> "error"]]
            /\ pc' = [pc EXCEPT ![p] = "rollback"]
       ELSE /\ pending' = [pending EXCEPT
                  ![p].newMovements =
                      <<log_movement(batch_id, "MALT", CONSUMPTION, quantity,
                                     NoLoc, NoLoc, NoTransfer, 2)>>,
                  ![p].ret = [status |-> "logged"]]
            /\ pc' = [pc EXCEPT ![p] = "commit"]
    /\ UNCHANGED <<StoreVars, nextBatchId, nextTransferId, locks, cand, idx, rows>>
    /\ UNCHANGED PlantVars

\* receipts and direct appends to the ledger
NextLedger ==
    \/ \E q \in RecvQtys, loc \in Locations, d \in Dates, c \in UnitCosts :
          FirstReceipt(loc) /\ Receive("MALT", q, loc, d, c)
    \/ \E p \in Procs, id \in NoBatch..MaxLots, q \in CallQtys, fk \in BOOLEAN :
          Accept(p) /\ LogMovementCall(p, id, q, fk)
    \/ \E p \in Procs : Commit(p)
    \/ \E p \in Procs : Rollback(p)

SpecLedger == Init /\ [][NextLedger]_vars

\* ---- production service: start_brewing -----------------------------------
PLANNED == "PLANNED"
BREWING == "BREWING"

MaxProduction == 1    \* production batches
MaxIngredients == 2   \* ingredients of a recipe
MaxAmount == 3        \* amount_kg of one ingredient

\* recipes: the fermentables of a recipe, each {"name", "amount_kg"}
Ingredients == [name : SKUs, amount_kg : 1..MaxAmount]
Recipes == UNION {[1..n -> Ingredients] : n \in 0..MaxIngredients}

\* consume_stock_batch on the rows bs (stock_routes.py 245-294), served on its
\* own session: the status code and the rows after its commit
consume_stock_batch(bs, batch_id, quantity, unit_matches) ==
    IF batch_id \notin DOMAIN bs
    THEN [status_code |-> 404, batches |-> bs]
    ELSE IF ~unit_matches \/ bs[batch_id].remaining_quantity < quantity
    THEN [status_code |-> 400, batches |-> bs]
    ELSE [status_code |-> 200,
          batches |-> [bs EXCEPT ![batch_id].remaining_quantity = @ - quantity]]

\* a client that sends quantity and unit in the query string, where the route
\* reads them
consume_stock_AsQuery(bs, stock_batch_id, quantity, unit_matches) ==
    LET r == consume_stock_batch(bs, stock_batch_id, quantity, unit_matches)
    IN [raised |-> r.status_code # 200, batches |-> r.batches]

\* InventoryServiceClient.consume_stock (inventory_client.py 40-64): PATCH
\* .../stock-batches/{id}/consume with quantity and unit in a JSON body. The
\* route declares both as required query parameters (stock_routes.py 224-225),
\* so the request is rejected with 422 before the handler runs, and
\* raise_for_status() raises httpx.HTTPStatusError
consume_stock(bs, stock_batch_id, quantity, unit_matches) ==
    [raised |-> TRUE, batches |-> bs]

\* InventoryServiceClient.get_available_stock_batches: GET /stock-batches,
\* the rows of the ingredient with remaining_quantity > min_quantity
Available(bs, ingredient_name) ==
    {id \in DOMAIN bs :
        bs[id].sku = ingredient_name /\ bs[id].remaining_quantity > 0}

RECURSIVE FermentableLoop(_, _, _, _, _, _)
\* cost_allocator.py 217-244: the loop over stock_batches (the rows `listed`
\* as the GET returned them) from position i, with `remaining` still needed
FermentableLoop(bs, listed, i, remaining, allocations, unit_matches) ==
    IF i > Len(listed) \/ remaining <= 0
    THEN [error |-> "none", batches |-> bs, allocations |-> allocations]
    ELSE LET stock_batch == listed[i]
             qty_to_consume == Min(remaining, stock_batch.remaining_quantity)
             r == consume_stock(bs, stock_batch.id, qty_to_consume, unit_matches)
         IN IF r.raised
            THEN [error |-> "http", batches |-> r.batches,
                  allocations |-> allocations]
            ELSE FermentableLoop(r.batches, listed, i + 1,
                                 remaining - qty_to_consume,
                                 Append(allocations,
                                        [stock_batch_id |-> stock_batch.id,
                                         ingredient_name |-> stock_batch.sku,
                                         quantity_consumed |-> qty_to_consume]),
                                 unit_matches)

\* CostAllocator._allocate_fermentable (cost_allocator.py 191-249); order:
\* the order in which the GET lists the rows of the ingredient
allocate_fermentable(bs, ferm, order, unit_matches) ==
    LET listed == [i \in DOMAIN order |-> bs[order[i]]]
    IN IF listed = <<>> \/ total_available(listed) < ferm.amount_kg
       THEN [error |-> "insufficient_stock", batches |-> bs, allocations |-> <<>>]
       ELSE FermentableLoop(bs, listed, 1, ferm.amount_kg, <<>>, unit_matches)

RECURSIVE FermentablesFrom(_, _, _, _, _, _)
\* CostAllocator.allocate_batch_costs (cost_allocator.py 93-130): the loop
\* over recipe.fermentables from position j; the first error ends it
FermentablesFrom(bs, recipe, j, orders, allocations, unit_matches) ==
    IF j > Len(recipe)
    THEN [error |-> "none", batches |-> bs, allocations |-> allocations]
    ELSE LET result_j == allocate_fermentable(bs, recipe[j], orders[j], unit_matches)
         IN IF result_j.error # "none"
            THEN [error |-> result_j.error, batches |-> result_j.batches,
                  allocations |-> allocations]
            ELSE FermentablesFrom(result_j.batches, recipe, j + 1, orders,
                                  allocations \o result_j.allocations,
                                  unit_matches)

\* the orders in which the GETs of a recipe may list the rows: per ingredient
\* an arrival_date order of its available rows at the time of its GET; the
\* rows of one ingredient are not touched by the consumption of another
ListingOrders(bs, recipe) ==
    {orders \in [DOMAIN recipe -> UNION {ScanOrders(S) : S \in SUBSET DOMAIN bs}] :
        \A j \in DOMAIN recipe :
            orders[j] \in ScanOrders(Available(bs, recipe[j].name))}

\* POST /batches (create_batch, production_routes.py 190-224)
CreateBatch(recipe) ==
    /\ Len(production) < MaxProduction
    /\ production' = Append(production,
          [id |-> Len(production) + 1, recipe |-> recipe, status |-> PLANNED,
           brewing_started_at |-> 0, fermenting_started_at |-> 0,
           conditioning_started_at |-> 0, packaging_started_at |-> 0,
           completed_at |-> 0, cancelled_at |-> 0, allocations |-> <<>>])
    /\ response' = [n |-> ops, op |-> "create_batch",
                    batch_id |-> Len(production) + 1, status_code |-> 201]
    /\ UNCHANGED <<batches, movements, transfers, nextBatchId, nextTransferId,
                   locks, SessionVars, ops, kegs, kegTransitions, kegTransfers>>

\* PATCH /batches/{batch_id}/start-brewing (production_routes.py 254-301);
\* now: the clock reading of the transition
StartBrewing(batch_id, orders, unit_matches, now) ==
    /\ ops < MaxOps
    /\ ops' = ops + 1
    /\ IF batch_id \notin DOMAIN production
       THEN /\ response' = [n |-> ops + 1, op |-> "start_brewing",
                            batch_id |-> batch_id, status_code |-> 404]
            /\ UNCHANGED <<production, batches>>
       ELSE LET batch == production[batch_id] IN
            IF batch.status # PLANNED
            THEN /\ response' = [n |-> ops + 1, op |-> "start_brewing",
                                 batch_id |-> batch_id, status_code |-> 400]
                 /\ UNCHANGED <<production, batches>>
            ELSE LET out == FermentablesFrom(batches, batch.recipe, 1, orders,
                                             <<>>, unit_matches)
                 IN
                 /\ batches' = out.batches
                 /\ IF out.error = "none"
                    THEN /\ production' = [production EXCEPT ![batch_id] =
                               [batch EXCEPT !.status = BREWING,
                                             !.brewing_started_at = now,
                                             !.allocations = out.allocations]]
                         /\ response' = [n |-> ops + 1, op |-> "start_brewing",
                                         batch_id |-> batch_id,
                                         status_code |-> 200]
                    ELSE /\ production' = production
                         /\ response' = [n |-> ops + 1, op |-> "start_brewing",
                                         batch_id |-> batch_id,
                                         status_code |->
                                            IF out.error = "insufficient_stock"
                                            THEN 400 ELSE 503]
    /\ UNCHANGED <<movements, transfers, nextBatchId, nextTransferId, locks,
                   SessionVars, kegs, kegTransitions, kegTransfers>>

\* receipts of both ingredients, production batches and start-brewing requests
NextBrew ==
    \/ \E sku \in SKUs, q \in RecvQtys, d \in Dates, c \in UnitCosts :
          Receive(sku, q, "SiloA", d, c)
    \/ \E recipe \in Recipes : CreateBatch(recipe)
    \/ \E b \in 1..MaxProduction, u \in BOOLEAN, now \in Dates :
          \E orders \in (IF b \in DOMAIN production
                         THEN ListingOrders(batches, production[b].recipe)
                         ELSE {<<>>}) :
              StartBrewing(b, orders, u, now)

SpecBrew == Init /\ [][NextBrew]_vars

\* ---- quantities of the committed store ----------------------------------
LotsIn(bs, sku, location) ==
    {id \in DOMAIN bs :
        bs[id].sku = sku /\ (location = NoLoc \/ bs[id].location = location)}

\* total remaining_quantity / initial_quantity of the lots of a SKU (at a location)
TotalRemainingIn(bs, sku, location) ==
    SumOver(LotsIn(bs, sku, location),
            [id \in DOMAIN bs |-> bs[id].remaining_quantity])
TotalInitialIn(bs, sku, location) ==
    SumOver(LotsIn(bs, sku, location),
            [id \in DOMAIN bs |-> bs[id].initial_quantity])

\* total quantity of the movements of ms at the indices in kept
LoggedIn(ms, kept) ==
    Sum([i \in DOMAIN ms |-> IF i \in kept THEN ms[i].quantity ELSE 0])

AllocatedQuantity(allocations) == 
    Sum([i \in DOMAIN allocations |-> allocations[i].quantity])

\* session p's request ends in this step
Ends(p) == pc[p] # "idle" /\ pc'[p] = "idle"

\* session p takes this step
Moves(p) == <<pc[p], idx[p], pending[p]>>' # <<pc[p], idx[p], pending[p]>>

\* ---- C1 -------------------------------------------------------------------
\* the calls made so far, and the location they all name
Calls == {p \in Procs : req[p].kind # "none"}
CallsLocation == req[CHOOSE p \in Calls : TRUE].location
Finished == {p \in Calls : pc[p] = "idle"}
Succeeded == {p \in Finished : result[p].status = "allocated"}

\* the quantity granted to the calls that have succeeded
Granted ==
    SumOver(Succeeded,
            [p \in Procs |-> IF result[p].status = "allocated"
                             THEN AllocatedQuantity(result[p].allocations)
                             ELSE 0])

\* C1: for concurrent allocate calls against one SKU and location, each in
\* its own session, the quantities granted to the calls that succeeded never
\* sum to more than the stock held before the first call locked, every
\* successful call is granted its whole request, and once all calls have
\* finished the total remaining equals the initial total minus the sum granted.
C1_NoOversell ==
    Calls # {} =>
        LET S0 == TotalInitialIn(batches, "MALT", CallsLocation) IN
        /\ Granted <= S0
        /\ \A p \in Succeeded :
              AllocatedQuantity(result[p].allocations) = req[p].quantity
        /\ Finished = Calls =>
              TotalRemainingIn(batches, "MALT", CallsLocation) = S0 - Granted

\* three calls raced for two lots: two were granted, the third found too
\* little left
C1_Witness ==
    /\ Calls = Procs /\ Finished = Procs
    /\ Cardinality(LotsIn(batches, "MALT", CallsLocation)) = 2
    /\ Cardinality(Succeeded) = 2
    /\ \E p \in Procs : /\ result[p].status = "insufficient_stock"
                         /\ result[p].available > 0

\* ---- C2 -------------------------------------------------------------------
\* C2: when N concurrent allocate(sku, q) calls, all for the same q, against a
\* SKU whose lots total S have all finished, exactly min(N, S div q) of them
\* succeeded, every other one failed with InsufficientStock, and the total
\* remaining is S - q * (number of successes).
C2_ExactSuccessCount ==
    (/\ Calls # {} /\ Finished = Calls
     /\ \A p, r \in Calls : req[p].quantity = req[r].quantity) =>
        LET S == TotalInitialIn(batches, "MALT", CallsLocation)
            q == req[CHOOSE p \in Calls : TRUE].quantity
        IN /\ Cardinality(Succeeded) = Min(Cardinality(Calls), S \div q)
           /\ \A p \in Calls \ Succeeded :
                 result[p].status = "insufficient_stock"
           /\ TotalRemainingIn(batches, "MALT", CallsLocation)
                 = S - q * Cardinality(Succeeded)

\* ---- C3 -------------------------------------------------------------------
WithinBounds(row) ==
    0 <= row.remaining_quantity /\ row.remaining_quantity <= row.initial_quantity

\* C3: in every reachable state every lot, as committed and as written by a
\* session that has not committed yet, has 0 <= remaining_quantity <=
\* initial_quantity.
C3_LotBounds ==
    /\ \A id \in DOMAIN batches : WithinBounds(batches[id])
    /\ \A p \in Procs :
        /\ \A i \in DOMAIN pending[p].updates : WithinBounds(pending[p].updates[i])
        /\ \A i \in DOMAIN pending[p].newBatches :
              WithinBounds(pending[p].newBatches[i])

\* a transfer split over two lots has committed: one source lot is exhausted,
\* one is partly used, and the destination lots exist
C3_Witness ==
    /\ \E id \in DOMAIN batches : batches[id].remaining_quantity = 0
    /\ \E id \in DOMAIN batches :
          /\ 0 < batches[id].remaining_quantity
          /\ batches[id].remaining_quantity < batches[id].initial_quantity
    /\ \E id \in DOMAIN batches : batches[id].batch_number.kind = "TRANSFER"

\* ---- C4 -------------------------------------------------------------------
IsOutflow(m) == m.movement_type \in {CONSUMPTION, "TRANSFER_OUT"}

\* C4: conservation: for every SKU, the sum of initial_quantity minus the sum
\* of remaining_quantity over its committed lots equals the total quantity of
\* the CONSUMPTION and TRANSFER_OUT movements committed for that SKU.
C4_Conservation ==
    \A sku \in SKUs :
        TotalInitialIn(batches, sku, NoLoc) - TotalRemainingIn(batches, sku, NoLoc)
            = LoggedIn(movements, {i \in DOMAIN movements :
                    movements[i].sku = sku /\ IsOutflow(movements[i])})

\* ---- C5 -------------------------------------------------------------------
\* C5: per-lot reconciliation: for every committed lot, initial_quantity minus
\* remaining_quantity equals the total quantity of the committed CONSUMPTION
\* and TRANSFER_OUT movements that reference the lot (a lot mutation is never
\* committed without its movement, nor a movement without its mutation).
C5_LotReconciliation ==
    \A id \in DOMAIN batches :
        batches[id].initial_quantity - batches[id].remaining_quantity
            = LoggedIn(movements, {i \in DOMAIN movements :
                    movements[i].batch_id = id /\ IsOutflow(movements[i])})

\* ---- C6 -------------------------------------------------------------------
\* the committed remaining_quantity of the eligible lots session p holds locked
LockedTotal(p) ==
    SumOver(locks[p], [id \in DOMAIN batches |-> batches[id].remaining_quantity])

IsConsumptionOf(m, a) ==
    m.movement_type = CONSUMPTION /\ m.batch_id = a.batch_id /\ m.quantity = a.quantity

\* C7: allocation is atomic: the step that ends a successful allocate commits
\* all of it at once (every fragment's decrement and its CONSUMPTION movement,
\* summing to the requested quantity), the step that ends a failed allocate
\* changes no lot and no movement, and no other step of an allocate changes
\* the committed store.
C7_AtomicAllocation ==
    [][\A p \in Procs :
        (req[p].kind = "allocate" /\ pc[p] # "idle" /\ Moves(p)) =>
            IF Ends(p) /\ result'[p].status = "allocated"
            THEN LET fr == result'[p].allocations IN
                 /\ AllocatedQuantity(fr) = req[p].quantity
                 /\ DOMAIN batches' = DOMAIN batches
                 /\ \A id \in DOMAIN batches :
                       batches'[id].remaining_quantity =
                           batches[id].remaining_quantity
                             - Sum([i \in DOMAIN fr |->
                                      IF fr[i].batch_id = id THEN fr[i].quantity ELSE 0])
                 /\ Len(movements') = Len(movements) + Len(fr)
                 /\ SubSeq(movements', 1, Len(movements)) = movements
                 /\ \A i \in DOMAIN fr :
                       IsConsumptionOf(movements'[Len(movements) + i], fr[i])
            ELSE batches' = batches /\ movements' = movements]_vars

\* an allocate split over two lots has committed
C7_Witness ==
    \E p \in Procs :
        /\ pc[p] = "idle"
        /\ req[p].kind = "allocate"
        /\ result[p].status = "allocated"
        /\ Len(result[p].allocations) = 2
        /\ Len(movements) = 2

\* ---- C8 -------------------------------------------------------------------
Max(a, b) == IF a >= b THEN a ELSE b

\* the reference FIFO split: what the i-th eligible lot gives to a request of
\* q, the lots before it having given all they hold
ReferenceTake(rs, q, i) ==
    Max(0, Min(rs[i].remaining_quantity,
               q - Sum([j \in 1..(i - 1) |-> rs[j].remaining_quantity])))

\* C8: a successful allocate equals the reference FIFO split over the eligible
\* lots it holds locked, taken in ascending arrival order: fragment i comes
\* from the i-th lot and is min(its remaining, quantity still needed), the
\* fragments sum to the requested quantity, every lot older than the last
\* touched lot ends at 0 and every lot newer than it is untouched.
C8_FifoSplit ==
    \A p \in Procs :
        (pc[p] = "commit" /\ req[p].kind = "allocate") =>
            LET rs == rows[p]
                fr == pending[p].ret.allocations
                up == pending[p].updates
                q  == req[p].quantity
                n  == Len(fr)
            IN /\ {rs[i].id : i \in DOMAIN rs}
                    = {id \in locks[p] : Matches(batches[id], req[p].sku,
                                                 req[p].location)}
               /\ \A i \in DOMAIN rs : rs[i] = batches[rs[i].id]
               /\ \A i, j \in DOMAIN rs :
                     i < j => rs[i].arrival_date <= rs[j].arrival_date
               /\ 1 <= n /\ n <= Len(rs) /\ Len(up) = n
               /\ \A i \in 1..n :
                     /\ fr[i].batch_id = rs[i].id
                     /\ fr[i].quantity = ReferenceTake(rs, q, i)
                     /\ fr[i].quantity > 0
                     /\ up[i].id = rs[i].id
                     /\ up[i].remaining_quantity =
                            rs[i].remaining_quantity - fr[i].quantity
               /\ AllocatedQuantity(fr) = q
               /\ \A i \in DOMAIN rs :
                     /\ rs[i].arrival_date < rs[n].arrival_date =>
                            i < n /\ up[i].remaining_quantity = 0
                     /\ rs[i].arrival_date > rs[n].arrival_date => i > n
                     /\ i > n => ReferenceTake(rs, q, i) = 0

\* an allocate is about to commit a split over two lots of which the older
\* one has the larger id
C8_Witness ==
    \E p \in Procs :
        /\ pc[p] = "commit"
        /\ req[p].kind = "allocate"
        /\ Len(pending[p].ret.allocations) = 2
        /\ pending[p].ret.allocations[1].batch_id
              > pending[p].ret.allocations[2].batch_id
        /\ rows[p][1].arrival_date < rows[p][2].arrival_date

\* ---- C9 -------------------------------------------------------------------
\* C9: the step that commits a transfer of q from one location to a different
\* one leaves the SKU-wide total remaining quantity unchanged, lowers the
\* total at the source location by exactly q and raises the total at the
\* destination location by exactly q.
C9_TransferConservation ==
    [][\A p \in Procs :
        (/\ req[p].kind = "transfer"
         /\ Ends(p)
         /\ result'[p].status = "transferred"
         /\ req[p].location # req[p].to_location) =>
            LET sku == req[p].sku
                q == req[p].quantity
            IN /\ TotalRemainingIn(batches', sku, NoLoc)
                    = TotalRemainingIn(batches, sku, NoLoc)
               /\ TotalRemainingIn(batches', sku, req[p].location)
                    = TotalRemainingIn(batches, sku, req[p].location) - q
               /\ TotalRemainingIn(batches', sku, req[p].to_location)
                    = TotalRemainingIn(batches, sku, req[p].to_location) + q]_vars

\* a transfer between two locations, split over two source lots, has committed
C9_Witness ==
    \E p \in Procs :
        /\ pc[p] = "idle"
        /\ req[p].kind = "transfer"
        /\ result[p].status = "transferred"
        /\ req[p].location # req[p].to_location
        /\ Cardinality({id \in DOMAIN batches :
                          /\ batches[id].batch_number.kind = "TRANSFER"
                          /\ batches[id].batch_number.transfer
                                = result[p].transfer.id}) = 2

\* ---- C10 ------------------------------------------------------------------
\* C10: when the allocation at the source location of a transfer fails with
\* InsufficientStock, the Transfer is set to FAILED, the same error (requested,
\* available at the source location) reaches the caller, and no lot or ledger
\* row is created or altered.
C10_FailedTransfer ==
    \A p \in Procs :
        (/\ pc[p] = "rollback"
         /\ req[p].kind = "transfer"
         /\ pending[p].ret.status = "insufficient_stock") =>
            /\ pending[p].newTransfers[1].status = "FAILED"
            /\ pending[p].ret.requested = req[p].quantity
            /\ pending[p].ret.available = LockedTotal(p)
            /\ pending[p].updates = <<>>
            /\ pending[p].newBatches = <<>>
            /\ pending[p].newMovements = <<>>

\* ---- C11 ------------------------------------------------------------------
\* the committed source deductions of transfer t (movements logged by the
\* allocation made for "Transfer #t") and the committed lots it created
SourceDeductions(t) ==
    {i \in DOMAIN movements :
        movements[i].movement_type = CONSUMPTION /\ movements[i].reference = t}
DestinationLots(t) ==
    {id \in DOMAIN batches :
        /\ batches[id].batch_number.kind = "TRANSFER"
        /\ batches[id].batch_number.transfer = t}

\* every committed source deduction has its destination lot and vice versa
Paired ==
    /\ \A i \in DOMAIN movements :
          (/\ movements[i].movement_type = CONSUMPTION
           /\ movements[i].reference # NoTransfer) =>
              LET t == movements[i].reference IN
              /\ t \in DOMAIN transfers
              /\ \E id \in DestinationLots(t) :
                    /\ batches[id].batch_number.from = movements[i].batch_id
                    /\ batches[id].initial_quantity = movements[i].quantity
                    /\ batches[id].location = transfers[t].to_location
    /\ \A id \in DOMAIN batches :
          batches[id].batch_number.kind = "TRANSFER" =>
              \E i \in SourceDeductions(batches[id].batch_number.transfer) :
                 /\ movements[i].batch_id = batches[id].batch_number.from
                 /\ movements[i].quantity = batches[id].initial_quantity
    /\ \A t \in DOMAIN transfers :
          /\ LoggedIn(movements, SourceDeductions(t)) = transfers[t].quantity
          /\ SumOver(DestinationLots(t),
                     [id \in DOMAIN batches |-> batches[id].initial_quantity])
                = transfers[t].quantity

\* C11: a transfer is all-or-nothing: every step of a transfer's session
\* other than its successful commit (its rollback after a failure at any
\* fragment included) leaves the committed lots, ledger and transfers as they
\* were, and in every committed state each source deduction of a transfer has
\* its destination lot, each destination lot its source deduction, and both
\* sum to the transferred quantity.
C11_TransferAllOrNothing ==
    [][/\ Paired'
       /\ \A p \in Procs :
            (/\ req[p].kind = "transfer" /\ pc[p] # "idle" /\ Moves(p)
             /\ ~(Ends(p) /\ result'[p].status = "transferred")) =>
                StoreVars' = StoreVars]_vars

\* a transfer split over two lots failed at its second fragment and was
\* rolled back: the id of the first destination lot is spent, no lot shows a
\* deduction, no destination lot and no transfer exists
C11_Witness ==
    /\ \E p \in Procs :
          /\ pc[p] = "idle"
          /\ req[p].kind = "transfer"
          /\ result[p].status = "error"
    /\ Cardinality(DOMAIN batches) = 2
    /\ nextBatchId = 4
    /\ \A id \in DOMAIN batches :
          batches[id].remaining_quantity = batches[id].initial_quantity
    /\ transfers = <<>>
    /\ movements = <<>>

\* ---- C12 ------------------------------------------------------------------
\* C12: once the transfer operation has returned or raised, its Transfer has
\* left PENDING for COMPLETED or FAILED, and every committed Transfer is
\* COMPLETED or FAILED.
C12_TransferLifecycle ==
    /\ \A p \in Procs :
          (req[p].kind = "transfer" /\ pc[p] \in {"commit", "rollback"}) =>
              pending[p].newTransfers[1].status \in {COMPLETED, "FAILED"}
    /\ \A t \in DOMAIN transfers : transfers[t].status \in {COMPLETED, "FAILED"}

\* ---- C13 ------------------------------------------------------------------
\* C13: an allocate whose quantity is not positive is rejected with
\* InvalidQuantity before any store access: its session issues no locking
\* query and holds no row lock, it writes nothing, and it never ends with a
\* (possibly empty) list of fragments.
C13_InvalidQuantity ==
    \A p \in Procs :
        (req[p].kind = "allocate" /\ req[p].quantity <= 0) =>
            /\ cand[p] = <<>> /\ locks[p] = {}
            /\ pending[p].updates = <<>> /\ pending[p].newMovements = <<>>
            /\ pending[p].ret.status \in {"none", "invalid_quantity"}
            /\ pc[p] = "idle" => result[p].status = "invalid_quantity"

\* ---- C14 ------------------------------------------------------------------
\* what a session can do by itself while its locking query runs: take the
\* next row lock, return, or be failed by the database
OwnStep(p) == LockRow(p) \/ AllocateRun(p) \/ DeadlockAbort(p)

\* C14: an allocation that finds a candidate lot locked by another in-flight
\* transaction does not depend on that transaction to end its wait: at every
\* moment of the wait it can proceed by itself, either acquiring the lock or
\* failing with an error that is not InsufficientStock.
C14_BoundedWait ==
    \A p \in Procs :
        (req[p].kind = "allocate" /\ Blocked(p)) => ENABLED OwnStep(p)

\* ---- C15 ------------------------------------------------------------------
\* C15: among eligible lots with the same arrival timestamp a successful
\* allocate consumes in ascending id order: its fragments from such lots are
\* in ascending id order, and a lot it takes from is preceded by no untouched
\* or partly used lot of the same timestamp and a smaller id.
C15_TieBreak ==
    \A p \in Procs :
        (pc[p] = "commit" /\ req[p].kind = "allocate") =>
            LET rs == rows[p]
                fr == pending[p].ret.allocations
                up == pending[p].updates
            IN /\ \A i, j \in DOMAIN fr :
                     (i < j /\ rs[i].arrival_date = rs[j].arrival_date) =>
                         fr[i].batch_id < fr[j].batch_id
               /\ \A i \in DOMAIN fr : \A k \in DOMAIN rs :
                     (/\ rs[k].arrival_date = rs[i].arrival_date
                      /\ rs[k].id < fr[i].batch_id) =>
                         /\ k \in DOMAIN up
                         /\ up[k].id = rs[k].id
                         /\ up[k].remaining_quantity = 0

\* ---- C16 ------------------------------------------------------------------
\* the allocation made for session p's request (allocate, or the allocation
\* inside a transfer) raises InsufficientStock in this step, holding the
\* locks of the rows its query visited
RaisesInsufficient(p) ==
    /\ req[p].kind \in {"allocate", "transfer"}
    /\ pc[p] = "lock"
    /\ pc'[p] = "rollback"
    /\ pending'[p].ret.status = "insufficient_stock"
    /\ locks'[p] # {}

\* C16: an allocation raises InsufficientStock only if, at the moment it
\* has taken its locks, the committed remaining_quantity of the eligible lots
\* (its SKU, its location if one is given) totals less than the requested
\* quantity, and the available it reports is that committed total.
C16_CommittedSupply ==
    [][\A p \in Procs :
        RaisesInsufficient(p) =>
            LET supply == TotalRemainingIn(batches, req[p].sku, req[p].location)
            IN /\ supply < req[p].quantity
               /\ pending'[p].ret.available = supply]_vars

\* ---- C17 ------------------------------------------------------------------
\* the movements of type out against the source lot and of type in against
\* the new lot that session p is about to commit for its destination lot nb
FragmentLogged(p, nb, out, in) ==
    /\ \E i \in DOMAIN pending[p].newMovements :
          LET m == pending[p].newMovements[i] IN
          /\ m.movement_type = out
          /\ m.batch_id = nb.batch_number.from
          /\ m.quantity = nb.initial_quantity
    /\ \E i \in DOMAIN pending[p].newMovements :
          LET m == pending[p].newMovements[i] IN
          /\ m.movement_type = in
          /\ m.batch_id = nb.id
          /\ m.quantity = nb.initial_quantity

\* the destination lot nb of session p is brand new and carries the unit cost
\* of the source lot it names as its origin
CarriesOver(p, nb) ==
    /\ nb.id \notin DOMAIN batches
    /\ nb.batch_number.kind = "TRANSFER"
    /\ nb.batch_number.transfer = pending[p].ret.transfer.id
    /\ nb.batch_number.from \in IdsOf(pending[p].updates)
    /\ nb.unit_cost = batches[nb.batch_number.from].unit_cost

\* C17: a successful transfer about to commit has, for each fragment, a
\* TRANSFER_OUT movement against the consumed source lot, a brand-new
\* destination lot carrying the fragment's unit cost and provenance, and a
\* TRANSFER_IN movement of the same quantity against that new lot.
C17_TransferMovements ==
    \A p \in Procs :
        (/\ req[p].kind = "transfer"
         /\ pc[p] = "commit") =>
            /\ Len(pending[p].newBatches) = Len(pending[p].updates)
            /\ \A i \in DOMAIN pending[p].newBatches :
                  /\ CarriesOver(p, pending[p].newBatches[i])
                  /\ FragmentLogged(p, pending[p].newBatches[i],
                                    "TRANSFER_OUT", "TRANSFER_IN")

\* ---- C18 ------------------------------------------------------------------
\* the lots this step drew from, the lots it created and the ledger rows it
\* appended
Consumed == {id \in DOMAIN batches :
                batches'[id].remaining_quantity < batches[id].remaining_quantity}
Created == DOMAIN batches' \ DOMAIN batches
Appended == (Len(movements) + 1)..Len(movements')

\* what the step took from lot id
Drawn(id) == batches[id].remaining_quantity - batches'[id].remaining_quantity

\* C18: the step that commits a successful transfer consuming k source lots
\* creates exactly k lots, all at the destination, one per source lot with
\* initial = remaining = the quantity drawn from it, summing to the
\* transferred quantity; it appends exactly 2k movements of the SKU, one per
\* source lot with from_location = source and the quantity drawn, one per new
\* lot with to_location = destination and the same quantity; the transfer is
\* committed COMPLETED.
C18_TransferShape ==
    [][\A p \in Procs :
        (/\ req[p].kind = "transfer"
         /\ Ends(p)
         /\ result'[p].status = "transferred") =>
            LET t == result'[p].transfer.id
                k == Cardinality(Consumed)
            IN
            /\ k >= 1
            /\ Cardinality(Created) = k
            /\ \A id \in Consumed :
                  /\ batches[id].location = req[p].location
                  /\ Cardinality({n \in Created :
                        /\ batches'[n].batch_number.from = id
                        /\ batches'[n].location = req[p].to_location
                        /\ batches'[n].sku = req[p].sku
                        /\ batches'[n].initial_quantity = Drawn(id)
                        /\ batches'[n].remaining_quantity = Drawn(id)}) = 1
                  /\ Cardinality({i \in Appended :
                        /\ movements'[i].batch_id = id
                        /\ movements'[i].sku = req[p].sku
                        /\ movements'[i].from_location = req[p].location
                        /\ movements'[i].quantity = Drawn(id)}) = 1
            /\ \A n \in Created :
                  /\ batches'[n].batch_number.from \in Consumed
                  /\ Cardinality({i \in Appended :
                        /\ movements'[i].batch_id = n
                        /\ movements'[i].sku = req[p].sku
                        /\ movements'[i].to_location = req[p].to_location
                        /\ movements'[i].quantity
                              = batches'[n].initial_quantity}) = 1
            /\ SumOver(Created,
                       [n \in DOMAIN batches' |-> batches'[n].initial_quantity])
                  = req[p].quantity
            /\ Len(movements') = Len(movements) + 2 * k
            /\ SubSeq(movements', 1, Len(movements)) = movements
            /\ t \in DOMAIN transfers' /\ t \notin DOMAIN transfers
            /\ transfers'[t].status = COMPLETED]_vars

\* a transfer to another location that consumed two source lots has committed
\* as the only request served: two lots at the destination and four movements
C18_Witness ==
    \E p \in Procs :
        /\ pc[p] = "idle"
        /\ req[p].kind = "transfer"
        /\ result[p].status = "transferred"
        /\ req[p].location # req[p].to_location
        /\ Cardinality(DestinationLots(result[p].transfer.id)) = 2
        /\ \A id \in DestinationLots(result[p].transfer.id) :
              batches[id].location = req[p].to_location
        /\ Len(movements) = 4
        /\ transfers[result[p].transfer.id].status = COMPLETED

\* ---- C19 ------------------------------------------------------------------
\* row is outside the request of session p: another SKU, or, when the request
\* names a location, another location
Outside(p, row) ==
    \/ row.sku # req[p].sku
    \/ req[p].location # NoLoc /\ row.location # req[p].location

\* session p serves an allocate or a transfer
Allocating(p) == req[p].kind \in {"allocate", "transfer"} /\ pc[p] # "idle"

\* what session p considers: the rows its query selected, locked and read,
\* the rows it updates, and the total it reports as available
ConsidersOwn(p) ==
    /\ \A i \in DOMAIN cand[p] : ~Outside(p, batches[cand[p][i]])
    /\ \A id \in locks[p] : ~Outside(p, batches[id])
    /\ \A i \in DOMAIN rows[p] : ~Outside(p, rows[p][i])
    /\ \A i \in DOMAIN pending[p].updates : ~Outside(p, pending[p].updates[i])
    /\ pending[p].ret.status = "insufficient_stock" =>
          pending[p].ret.available
              = SumOver({id \in locks[p] : ~Outside(p, batches[id])},
                        [id \in DOMAIN batches |-> batches[id].remaining_quantity])

\* C19: an allocate or a transfer selects, locks, reads and updates only lots
\* of its SKU and, when it names a location, of that location, the total it
\* reports as available counts only such lots, and no step of its session
\* changes the remaining_quantity, the flag or the version of any other lot.
C19_Frame ==
    [][\A p \in Procs :
        /\ Allocating(p)' => ConsidersOwn(p)'
        /\ (Allocating(p) /\ Moves(p)) =>
              \A id \in DOMAIN batches :
                  Outside(p, batches[id]) =>
                      /\ id \in DOMAIN batches'
                      /\ batches'[id].remaining_quantity
                            = batches[id].remaining_quantity
                      /\ batches'[id].is_allocated = batches[id].is_allocated
                      /\ batches'[id].lock_version = batches[id].lock_version]_vars

\* an allocation of 3 MALT at a location failed with available = 2 although a
\* HOPS lot of 2 units lies at the same location, still untouched
C19_Witness ==
    \E p \in Procs :
        /\ pc[p] = "idle"
        /\ req[p].kind = "allocate"
        /\ req[p].location # NoLoc
        /\ result[p].status = "insufficient_stock"
        /\ result[p].requested = 3
        /\ result[p].available = 2
        /\ \E id \in DOMAIN batches :
              /\ batches[id].sku = "HOPS"
              /\ batches[id].location = req[p].location
              /\ batches[id].remaining_quantity = 2
              /\ batches[id].lock_version = 1

\* ---- C20 ------------------------------------------------------------------
\* C20: the movement ledger is append-only: every step leaves each committed
\* movement row in place and unchanged, so the ledger after the step is the
\* ledger before it followed by zero or more new rows.
C20_AppendOnly ==
    [][/\ Len(movements') >= Len(movements)
       /\ \A i \in DOMAIN movements : movements'[i] = movements[i]]_vars

\* the ledger holds the row of a committed allocation followed by the two
\* rows of a transfer committed after it
C20_Witness ==
    /\ Len(movements) = 3
    /\ movements[1].movement_type = CONSUMPTION
    /\ movements[1].reference = NoTransfer
    /\ movements[2].reference # NoTransfer
    /\ movements[3].movement_type = TRANSFER
    /\ \A p \in Procs : pc[p] = "idle"

\* ---- C21 ------------------------------------------------------------------
\* C21: an append to the ledger is validated: a call with a quantity <= 0 or
\* with a lot reference that names no lot never reaches its commit, and every
\* committed ledger row has a quantity > 0 and, when it names a lot, names an
\* existing one.
C21_ValidatedAppend ==
    /\ \A p \in Procs :
          (req[p].kind = "log" /\ pc[p] = "commit") =>
              /\ req[p].quantity > 0
              /\ req[p].batch_id = NoBatch \/ req[p].batch_id \in DOMAIN batches
    /\ \A i \in DOMAIN movements :
          /\ movements[i].quantity > 0
          /\ movements[i].batch_id = NoBatch
                \/ movements[i].batch_id \in DOMAIN batches

\* ---- C22 ------------------------------------------------------------------
\* session p is inside its locking SELECT
Selecting(p) ==
    req[p].kind \in {"allocate", "transfer"} /\ pc[p] \in {"lock", "run"}

\* the other sessions with an open transaction
OpenBeside(p) == {q \in Procs \ {p} : pc[q] # "idle"}

\* C22: an allocation or transfer inside its locking SELECT is not blocked
\* (it can take its next lock, or return) whenever every other open
\* transaction works on another SKU, and a session that waits for a row lock
\* waits for a session of its own SKU.
C22_DisjointSkus ==
    \A p \in Procs :
        Selecting(p) =>
            /\ (\A q \in OpenBeside(p) : req[q].sku # req[p].sku)
                  => ~Blocked(p)
            /\ \A q \in OpenBeside(p) :
                  (Blocked(p) /\ NextRow(p) \in locks[q])
                      => req[q].sku = req[p].sku

\* a HOPS allocation holds its row locks uncommitted while a MALT request has
\* taken its own locks and is about to commit as well
C22_Witness ==
    \E p, q \in Procs :
        /\ req[p].kind \in {"allocate", "transfer"} /\ req[p].sku = "MALT"
        /\ req[q].kind = "allocate" /\ req[q].sku = "HOPS"
        /\ pc[p] = "commit" /\ pc[q] = "commit"
        /\ locks[p] # {} /\ locks[q] # {}

\* ---- C23 ------------------------------------------------------------------
\* C23: in every committed state a lot's is_allocated flag is true exactly
\* when its remaining_quantity is 0.
C23_FullyAllocatedFlag ==
    \A id \in DOMAIN batches :
        batches[id].is_allocated <=> (batches[id].remaining_quantity = 0)

\* ---- C24 ------------------------------------------------------------------
\* C24: every step keeps every lot (the set of lots only grows), never raises
\* a lot's remaining_quantity, and leaves its sku, initial_quantity, unit_cost
\* and total_cost as they were set at creation.
C24_LotsPersist ==
    [][\A id \in DOMAIN batches :
          /\ id \in DOMAIN batches'
          /\ batches'[id].remaining_quantity <= batches[id].remaining_quantity
          /\ batches'[id].sku = batches[id].sku
          /\ batches'[id].initial_quantity = batches[id].initial_quantity
          /\ batches'[id].unit_cost = batches[id].unit_cost
          /\ batches'[id].total_cost = batches[id].total_cost]_vars

\* an exhausted lot is still in the store, beside a lot created after it, once
\* every request has ended
C24_Witness ==
    /\ \E id, later \in DOMAIN batches :
          /\ id < later
          /\ batches[id].remaining_quantity = 0
          /\ batches[id].initial_quantity = MaxQty
          /\ batches[id].total_cost = MaxQty * batches[id].unit_cost
    /\ \A p \in Procs : pc[p] = "idle"
    /\ ops = MaxOps

\* ---- C25 ------------------------------------------------------------------
\* C25: under fair scheduling every allocate and transfer request that has
\* started eventually ends, committed or failed: no session waits for a row
\* lock forever.
C25_Termination ==
    \A p \in Procs : (pc[p] # "idle") ~> (pc[p] = "idle")

\* two allocations locked lots of equal arrival_date in opposite orders: one
\* was failed by the database and has ended, the other has ended allocated
C25_Witness ==
    \E p, q \in Procs :
        /\ pc[p] = "idle" /\ pc[q] = "idle"
        /\ req[p].kind = "allocate" /\ result[p].status = "error"
        /\ req[q].kind = "allocate" /\ result[q].status = "allocated"

\* ---- C26 ------------------------------------------------------------------
\* the quantity the recorded ingredient allocations take from lot id
AllocatedFrom(allocations, id) ==
    LoggedIn([i \in DOMAIN allocations |->
                 [quantity |-> allocations[i].quantity_consumed]],
             {i \in DOMAIN allocations : allocations[i].stock_batch_id = id})

\* this step answers a start-brewing request for the PLANNED batch b
AnswersStartBrewing(b) ==
    /\ ops' = ops + 1
    /\ response'.op = "start_brewing"
    /\ response'.batch_id = b
    /\ production[b].status = PLANNED

MaxKegs == 2
MaxLog == 3
MaxCycles == 2

\* the rows and sessions of the stock routes, which no keg route touches
InventoryVars ==
    <<batches, movements, transfers, nextBatchId, nextTransferId, locks,
      pc, req, cand, idx, rows, pending, result, ops>>

\* Python's None in an integer column or an optional integer field
None == -1

KegStates ==
    {"EMPTY", "DIRTY", "CLEAN", "FILLING", "FULL", "TAPPED", "IN_CLIENT",
     "IN_TRANSIT", "QUARANTINE", "RETIRED"}

\* the table of keg_fsm.py: the targets allowed from each state
VALID_TRANSITIONS ==
    [s \in KegStates |->
        CASE s = "EMPTY" -> {"DIRTY", "CLEAN"}
          [] s = "DIRTY" -> {"CLEAN", "QUARANTINE"}
          [] s = "CLEAN" -> {"FILLING", "DIRTY"}
          [] s = "FILLING" -> {"FULL", "CLEAN"}
          [] s = "FULL" -> {"TAPPED", "IN_TRANSIT", "IN_CLIENT"}
          [] s = "TAPPED" -> {"EMPTY"}
          [] s = "IN_CLIENT" -> {"IN_TRANSIT"}
          [] s = "IN_TRANSIT" -> {"EMPTY", "IN_CLIENT"}
          [] s = "QUARANTINE" -> {"CLEAN", "RETIRED"}
          [] s = "RETIRED" -> {}]

\* a check that lets every target through
can_transition_Any(from_state, to_state) == TRUE
can_transition(from_state, to_state) == to_state \in VALID_TRANSITIONS[from_state]

\* `not x` of an optional integer: None and 0 are both false
Falsy(x) == x \in {None, 0}

\* the exception validate_transition raises, or "ok"
validate_transition(keg, new_state, context) ==
    IF ~can_transition(keg.current_state, new_state)
    THEN "InvalidTransitionError"
    ELSE IF new_state = "FILLING" /\ keg.current_state # "CLEAN"
    THEN "ValidationError"
    ELSE IF new_state = "FULL" /\ Falsy(context.batch_id)
    THEN "ValidationError"
    ELSE IF new_state = "IN_CLIENT" /\ Falsy(context.client_id)
    THEN "ValidationError"
    ELSE IF new_state = "RETIRED" /\ ~Falsy(keg.production_batch_id)
    THEN "ValidationError"
    ELSE "ok"

\* the keg after KegStateMachine.apply_state_changes
apply_state_changes(keg, new_state, context) ==
    LET moved == [keg EXCEPT !.current_state = new_state]
    IN  CASE new_state = "CLEAN" ->
               [moved EXCEPT !.production_batch_id = None]
          [] new_state = "FULL" ->
               [moved EXCEPT !.production_batch_id = context.batch_id,
                             !.cycle_count = @ + 1]
          [] new_state = "IN_CLIENT" ->
               [moved EXCEPT !.client_id = context.client_id]
          [] new_state = "EMPTY" ->
               [moved EXCEPT !.production_batch_id = None, !.client_id = None]
          [] new_state = "RETIRED" ->
               [moved EXCEPT !.is_active = FALSE]
          [] OTHER -> moved

\* the row of a KegTransition
KegTransition(keg_id, from_state, to_state) ==
    [keg_id |-> keg_id, from_state |-> from_state, to_state |-> to_state]

\* the orders in which a query without ORDER BY may return the rows S
KegOrders(S) ==
    {o \in [1..Cardinality(S) -> S] : \A i, j \in DOMAIN o : o[i] = o[j] => i = j}

\* the logged state changes so far: every row but the registration rows
KegMoves == Len(kegTransitions) - Len(kegs)

\* POST /kegs: a new keg starts EMPTY and its registration is logged; a known
\* serial number is refused
CreateKeg(serial_number) ==
    /\ Len(kegs) < MaxKegs
    /\ IF \E k \in DOMAIN kegs : kegs[k].serial_number = serial_number
       THEN /\ response' = [op |-> "create_keg", status_code |-> 400]
            /\ UNCHANGED <<kegs, kegTransitions>>
       ELSE /\ kegs' = Append(kegs, [id |-> Len(kegs) + 1,
                                     serial_number |-> serial_number,
                                     rfid_tag |-> serial_number,
                                     current_state |-> "EMPTY",
                                     production_batch_id |-> None,
                                     client_id |-> None,
                                     cycle_count |-> 0,
                                     is_active |-> TRUE])
            /\ kegTransitions' =
                  Append(kegTransitions,
                         KegTransition(Len(kegs) + 1, "EMPTY", "EMPTY"))
            /\ response' = [op |-> "create_keg", status_code |-> 201]
    /\ UNCHANGED <<InventoryVars, production, kegTransfers>>

\* PATCH /kegs/{keg_id}/transition
TransitionKeg(keg_id, new_state, batch_id, client_id) ==
    LET context == [batch_id |-> batch_id, client_id |-> client_id]
        answer(code, error) ==
            [op |-> "transition_keg", keg_id |-> keg_id, new_state |-> new_state,
             status_code |-> code, error |-> error]
    IN  IF keg_id \notin DOMAIN kegs
        THEN /\ response' = answer(404, "none")
             /\ UNCHANGED <<InventoryVars, production, kegs, kegTransitions,
                            kegTransfers>>
        ELSE LET raised == validate_transition(kegs[keg_id], new_state, context)
             IN  IF raised # "ok"
                 THEN /\ response' = answer(400, raised)
                      /\ UNCHANGED <<InventoryVars, production, kegs,
                                     kegTransitions, kegTransfers>>
                 ELSE /\ KegMoves < MaxLog
                      /\ new_state = "FULL" => kegs[keg_id].cycle_count < MaxCycles
                      /\ kegs' = [kegs EXCEPT ![keg_id] =
                                    apply_state_changes(@, new_state, context)]
                      /\ kegTransitions' =
                            Append(kegTransitions,
                                   KegTransition(keg_id, kegs[keg_id].current_state,
                                                 new_state))
                      /\ response' = answer(200, "none")
                      /\ UNCHANGED <<InventoryVars, production, kegTransfers>>

\* POST /kegs/bulk-scan: every scanned keg moves, or none does
BulkScanKegs(rfid_tags, new_state) ==
    LET context == [batch_id |-> None, client_id |-> None]
        found == {k \in DOMAIN kegs : kegs[k].rfid_tag \in rfid_tags}
        missing_tags == rfid_tags \ {kegs[k].rfid_tag : k \in found}
        refused == {k \in found :
                       validate_transition(kegs[k], new_state, context) # "ok"}
        failed_count == Cardinality(missing_tags) + Cardinality(refused)
        answer(done) ==
            [op |-> "bulk_scan", status_code |-> 200,
             success_count |-> done, failed_count |-> failed_count]
    IN  IF failed_count > 0
        THEN /\ response' = answer(0)
             /\ UNCHANGED <<InventoryVars, production, kegs, kegTransitions,
                            kegTransfers>>
        ELSE /\ KegMoves + Cardinality(found) <= MaxLog
             /\ \E o \in KegOrders(found) :
                   kegTransitions' =
                       kegTransitions \o
                       [i \in DOMAIN o |->
                           KegTransition(o[i], kegs[o[i]].current_state, new_state)]
             /\ kegs' = [k \in DOMAIN kegs |->
                            IF k \in found
                            THEN apply_state_changes(kegs[k], new_state, context)
                            ELSE kegs[k]]
             /\ response' = answer(Cardinality(found))
             /\ UNCHANGED <<InventoryVars, production, kegTransfers>>

\* POST /kegs/fill-batch: CLEAN kegs are marked FULL with the batch
FillBatch(batch_id, keg_ids) ==
    LET context == [batch_id |-> batch_id, client_id |-> None]
        found == keg_ids \cap DOMAIN kegs
        answer(code, done) ==
            [op |-> "fill_batch", status_code |-> code, success_count |-> done]
    IN  IF found # keg_ids
        THEN /\ response' = answer(404, 0)
             /\ UNCHANGED <<InventoryVars, production, kegs, kegTransitions,
                            kegTransfers>>
        ELSE IF \E k \in found : kegs[k].current_state # "CLEAN"
        THEN /\ response' = answer(400, 0)
             /\ UNCHANGED <<InventoryVars, production, kegs, kegTransitions,
                            kegTransfers>>
        ELSE /\ KegMoves + Cardinality(found) <= MaxLog
             /\ \A k \in found : kegs[k].cycle_count < MaxCycles
             /\ \E o \in KegOrders(found) :
                   kegTransitions' =
                       kegTransitions \o
                       [i \in DOMAIN o |->
                           KegTransition(o[i], kegs[o[i]].current_state, "FULL")]
             /\ kegs' = [k \in DOMAIN kegs |->
                            IF k \in found
                            THEN apply_state_changes(kegs[k], "FULL", context)
                            ELSE kegs[k]]
             /\ response' = answer(200, Cardinality(found))
             /\ UNCHANGED <<InventoryVars, production, kegTransfers>>

\* POST /kegs/transfer: the content of a FULL keg goes to CLEAN kegs
TransferContent(source_keg_id, target_keg_ids) ==
    LET targets == target_keg_ids \cap DOMAIN kegs
        answer(code) ==
            [op |-> "transfer_content", source_keg_id |-> source_keg_id,
             target_keg_ids |-> target_keg_ids, status_code |-> code]
    IN  IF source_keg_id \notin DOMAIN kegs
        THEN /\ response' = answer(404)
             /\ UNCHANGED <<InventoryVars, production, kegs, kegTransitions,
                            kegTransfers>>
        ELSE IF kegs[source_keg_id].current_state # "FULL"
        THEN /\ response' = answer(400)
             /\ UNCHANGED <<InventoryVars, production, kegs, kegTransitions,
                            kegTransfers>>
        ELSE IF targets # target_keg_ids
        THEN /\ response' = answer(404)
             /\ UNCHANGED <<InventoryVars, production, kegs, kegTransitions,
                            kegTransfers>>
        ELSE IF \E k \in targets : kegs[k].current_state # "CLEAN"
        THEN /\ response' = answer(400)
             /\ UNCHANGED <<InventoryVars, production, kegs, kegTransitions,
                            kegTransfers>>
        ELSE LET transfer ==
                     [source_keg_id |-> source_keg_id,
                      source_batch_id |-> kegs[source_keg_id].production_batch_id,
                      target_keg_ids |-> target_keg_ids]
                 emptied ==
                     [kegs EXCEPT ![source_keg_id].current_state = "EMPTY",
                                  ![source_keg_id].production_batch_id = None]
                 \* read after the source row was cleared
                 batch_id == emptied[source_keg_id].production_batch_id
             IN  /\ \A k \in targets : kegs[k].cycle_count < MaxCycles
                 /\ kegTransfers' = Append(kegTransfers, transfer)
                 /\ kegs' = [k \in DOMAIN kegs |->
                                IF k \in targets
                                THEN [emptied[k] EXCEPT
                                         !.current_state = "FULL",
                                         !.production_batch_id = batch_id,
                                         !.cycle_count = @ + 1]
                                ELSE emptied[k]]
                 /\ response' = answer(200)
                 /\ UNCHANGED <<InventoryVars, production, kegTransitions>>

KegIds == 1..(MaxKegs + 1)
BatchIdInputs == {None, 1}
ClientIdInputs == {None, 1}

NextKegs ==
    \/ \E serial_number \in 1..MaxKegs : CreateKeg(serial_number)
    \/ \E keg_id \in KegIds, new_state \in KegStates,
          batch_id \in BatchIdInputs, client_id \in ClientIdInputs :
          TransitionKeg(keg_id, new_state, batch_id, client_id)
    \/ \E rfid_tags \in (SUBSET KegIds) \ {{}}, new_state \in KegStates :
          BulkScanKegs(rfid_tags, new_state)
    \/ \E batch_id \in {0, 1}, keg_ids \in (SUBSET KegIds) \ {{}} :
          FillBatch(batch_id, keg_ids)
    \/ \E source_keg_id \in KegIds, target_keg_ids \in (SUBSET KegIds) \ {{}} :
          TransferContent(source_keg_id, target_keg_ids)

SpecKegs == Init /\ [][NextKegs]_vars

\* C27: the keg transition operation changes a keg's state only along an edge
\* of VALID_TRANSITIONS: a request for any other target is answered with
\* InvalidTransitionError and leaves every keg row and the transition log as
\* they were, and a RETIRED keg is never changed by a transition request.
C27_TransitionEdges ==
    [][(response'.op = "transition_keg" /\ response'.keg_id \in DOMAIN kegs) =>
          LET keg == kegs[response'.keg_id]
              after == kegs'[response'.keg_id]
              new_state == response'.new_state
          IN  /\ new_state \notin VALID_TRANSITIONS[keg.current_state] =>
                    /\ response'.error = "InvalidTransitionError"
                    /\ kegs' = kegs
                    /\ kegTransitions' = kegTransitions
              /\ after.current_state # keg.current_state =>
                    /\ after.current_state = new_state
                    /\ new_state \in VALID_TRANSITIONS[keg.current_state]
              /\ keg.current_state = "RETIRED" => after = keg]_vars

\* a RETIRED keg whose transition request was refused as an invalid transition
C27_Witness ==
    /\ response.op = "transition_keg"
    /\ response.status_code = 400
    /\ response.error = "InvalidTransitionError"
    /\ response.keg_id \in DOMAIN kegs
    /\ kegs[response.keg_id].current_state = "RETIRED"
    /\ ~kegs[response.keg_id].is_active

\* C28: after any sequence of keg operations (create, transition, bulk-scan,
\* fill-batch, content transfer) every change of a keg's current_state is an
\* edge of VALID_TRANSITIONS and every keg in state FULL has a non-null
\* production_batch_id.
C28_KegInvariant ==
    [][\A k \in DOMAIN kegs' :
          /\ (k \in DOMAIN kegs /\ kegs'[k].current_state # kegs[k].current_state) =>
                kegs'[k].current_state \in VALID_TRANSITIONS[kegs[k].current_state]
          /\ kegs'[k].current_state = "FULL" =>
                kegs'[k].production_batch_id # None]_vars

\* C29: a successful content transfer from a FULL source keg to CLEAN target
\* kegs leaves the source EMPTY with no batch and every target FULL carrying
\* the production batch id the source keg had before the transfer.
C29_TransferContent ==
    [][(response'.op = "transfer_content" /\ response'.status_code = 200) =>
          LET source == response'.source_keg_id
          IN  /\ kegs'[source].current_state = "EMPTY"
              /\ kegs'[source].production_batch_id = None
              /\ \A t \in response'.target_keg_ids :
                    /\ kegs'[t].current_state = "FULL"
                    /\ kegs'[t].production_batch_id =
                          kegs[source].production_batch_id]_vars

\* ---- production batches: batch_state_machine.py ---------------------------
BatchStatuses ==
    {PLANNED, BREWING, "FERMENTING", "CONDITIONING", "PACKAGING", "COMPLETED",
     "CANCELLED"}

\* BatchStateMachine.VALID_TRANSITIONS: the targets allowed from each status
Batch_VALID_TRANSITIONS ==
    [s \in BatchStatuses |->
        CASE s = PLANNED -> {BREWING, "CANCELLED"}
          [] s = BREWING -> {"FERMENTING", "CANCELLED"}
          [] s = "FERMENTING" -> {"CONDITIONING", "PACKAGING", "CANCELLED"}
          [] s = "CONDITIONING" -> {"PACKAGING", "CANCELLED"}
          [] s = "PACKAGING" -> {"COMPLETED", "CANCELLED"}
          [] s = "COMPLETED" -> {}
          [] s = "CANCELLED" -> {}]

\* a check that lets every target through
Batch_can_transition_Any(current_status, new_status) == TRUE
Batch_can_transition(current_status, new_status) == new_status \in Batch_VALID_TRANSITIONS[current_status]

\* BatchStateMachine.transition at clock reading now: whether it raised
\* ValueError, and the batch it leaves
transition(batch, new_status, now) ==
    IF ~Batch_can_transition(batch.status, new_status)
    THEN [raised |-> TRUE, batch |-> batch]
    ELSE LET moved == [batch EXCEPT !.status = new_status]
         IN  [raised |-> FALSE,
              batch |->
                 CASE new_status = BREWING ->
                        [moved EXCEPT !.brewing_started_at = now]
                   [] new_status = "FERMENTING" ->
                        [moved EXCEPT !.fermenting_started_at = now]
                   [] new_status = "CONDITIONING" ->
                        [moved EXCEPT !.conditioning_started_at = now]
                   [] new_status = "PACKAGING" ->
                        [moved EXCEPT !.packaging_started_at = now]
                   [] new_status = "COMPLETED" ->
                        [moved EXCEPT !.completed_at = now]
                   [] new_status = "CANCELLED" ->
                        [moved EXCEPT !.cancelled_at = now]
                   [] OTHER -> moved]

\* a caller that loads the batch, calls transition and commits what it leaves
TransitionBatch(batch_id, new_status, now) ==
    /\ batch_id \in DOMAIN production
    /\ LET out == transition(production[batch_id], new_status, now)
       IN  /\ production' = [production EXCEPT ![batch_id] = out.batch]
           /\ response' = [op |-> "transition", batch_id |-> batch_id,
                           new_status |-> new_status, raised |-> out.raised]
    /\ UNCHANGED <<InventoryVars, kegs, kegTransitions, kegTransfers>>

\* the recipes of the batches whose status is driven here
BatchRecipes == {r \in Recipes : Len(r) <= 1}

NextBatch ==
    \/ \E recipe \in BatchRecipes : CreateBatch(recipe)
    \/ \E b \in 1..MaxProduction, s \in BatchStatuses, now \in Dates :
          TransitionBatch(b, s, now)

SpecBatch == Init /\ [][NextBatch]_vars

\* C30: BatchStateMachine.transition changes a batch's status only along an
\* edge of its VALID_TRANSITIONS table; no transition out of COMPLETED or
\* CANCELLED succeeds; an invalid transition raises ValueError and leaves the
\* batch's status and timestamps unchanged.
C30_BatchTransitions ==
    [][response'.op = "transition" =>
          LET batch == production[response'.batch_id]
              after == production'[response'.batch_id]
              new_status == response'.new_status
          IN  /\ after.status # batch.status =>
                    /\ after.status = new_status
                    /\ new_status \in Batch_VALID_TRANSITIONS[batch.status]
              /\ batch.status \in {"COMPLETED", "CANCELLED"} =>
                    /\ response'.raised
                    /\ after = batch
              /\ new_status \notin Batch_VALID_TRANSITIONS[batch.status] =>
                    /\ response'.raised
                    /\ after = batch]_vars

\* a COMPLETED batch, stamped on its way, whose next transition raised
C30_Witness ==
    /\ response.op = "transition"
    /\ response.raised
    /\ production[response.batch_id].status = "COMPLETED"
    /\ production[response.batch_id].completed_at # 0
    /\ production[response.batch_id].cancelled_at = 0
====
